---- MODULE Spec2Model ----
(***************************************************************************)
(* SonicVision Studio: the three-phase generation pipeline of App          *)
(* (processAudio / reset / handleFileUpload) and the Generation Client     *)
(* (GeminiService.analyzeAudio / generateImage).                           *)
(*                                                                         *)
(* JavaScript objects are functions from field names to values; a field    *)
(* that is absent from the object is absent from the function's domain.    *)
(* One action is one synchronous stretch of code between two awaits.       *)
(***************************************************************************)
EXTENDS Integers, Sequences, FiniteSets, TLC

\* ------------------------------------------------------------- bounds
MaxElements == 2      \* recurring elements in an analysis response
MaxScenes == 2        \* scenes in an analysis response
MaxRuns == 2          \* processAudio invocations in one behaviour
MaxImages == 2        \* elements plus scenes of a response, where runs may overlap
MaxRetriesArg == 3    \* largest `retries` argument tried on generateImage alone

Timestamps == {0, 5}
PlaybackTimes == {0, 2, 7}
RunIds == 1..MaxRuns

\* ------------------------------------------------ program constants
DefaultRetries == 2
BackoffUnitMs == 1500
InitialProgress == 5

IDLE == "IDLE"
ANALYZING == "ANALYZING"
DESIGNING_ELEMENTS == "DESIGNING_ELEMENTS"
GENERATING_IMAGES == "GENERATING_IMAGES"
READY == "READY"
ERROR == "ERROR"
AppState == {IDLE, ANALYZING, DESIGNING_ELEMENTS, GENERATING_IMAGES, READY, ERROR}

\* null for object-valued fields, and null for the string-valued error field
Null == [null |-> TRUE]
NullMsg == "<null>"

\* ------------------------------------------------------ JS helpers
EmptyObject == [k \in {} |-> TRUE]
Has(obj, key) == key \in DOMAIN obj
\* { ...rec, key: val }
Put(rec, key, val) == [k \in DOMAIN rec \cup {key} |-> IF k = key THEN val ELSE rec[k]]
Drop(rec, key) == [k \in DOMAIN rec \ {key} |-> rec[k]]

Return(v) == [ok |-> TRUE, value |-> v]
Throw(e) == [ok |-> FALSE, error |-> e]
JsError(m) == [message |-> m]
\* V8's TypeError for reading property p of undefined
TypeErrorReading(p) ==
  JsError("Cannot read properties of undefined (reading '" \o p \o "')")

\* the m in 0..99 for which the double ((2m+1)/200)*100 is below m + 1/2: the
\* quotient, rounded to 53 bits, times 100, rounded again, falls short of the
\* half that the exact product reaches
HalfRoundedDown == {14, 28, 56, 57}

\* Math.round((k / n) * 100) in IEEE doubles, for 0 < k <= n: floor(x + 1/2) of
\* the exact x = 100k/n, except where x = m + 1/2 and the double is below it
\* (off a half the double is within 2^-45 of x, x at least 1/(2n) from a half)
RoundPercent(k, n) ==
  LET rounded == (200 * k + n) \div (2 * n)
      half == (200 * k) % n = 0 /\ ((200 * k) \div n) % 2 = 1
  IN IF half /\ (rounded - 1) \in HalfRoundedDown THEN rounded - 1 ELSE rounded

\* Array.prototype.sort((a, b) => a.timestamp - b.timestamp): stable, ascending
RECURSIVE InsertScene(_, _)
InsertScene(sorted, s) ==
  IF sorted = <<>> THEN <<s>>
  ELSE IF s.timestamp - sorted[Len(sorted)].timestamp >= 0
       THEN Append(sorted, s)
       ELSE Append(InsertScene(SubSeq(sorted, 1, Len(sorted) - 1), s), sorted[Len(sorted)])

\* the scenes left in the order of the answer
KeepOrder(scenes) == scenes

RECURSIVE SortScenes(_)
SortScenes(scenes) ==
  IF scenes = <<>> THEN <<>>
  ELSE InsertScene(SortScenes(SubSeq(scenes, 1, Len(scenes) - 1)), scenes[Len(scenes)])

\* ------------------------------------------- what the service can answer
Elements(n) == [k \in 1..n |-> [name |-> k, description |-> k]]
Scenes(ts) == [k \in 1..Len(ts) |->
                 [timestamp |-> ts[k], description |-> k, visual_prompt |-> k]]
TimestampSeqs == UNION {[1..m -> Timestamps] : m \in 0..MaxScenes}

StoryboardJson(n, ts) ==
  [title |-> "X",
   production_design |-> [art_style |-> "noir", recurring_elements |-> Elements(n)],
   scenes |-> Scenes(ts)]

\* an answer whose two recurring elements are equal: the requests for their
\* reference sheets are equal too
Twins ==
  [title |-> "X",
   production_design |-> [art_style |-> "noir",
                          recurring_elements |-> <<Elements(1)[1], Elements(1)[1]>>],
   scenes |-> <<>>]

WellShaped ==
  {StoryboardJson(n, ts) : n \in 0..MaxElements, ts \in TimestampSeqs} \cup {Twins}

Images(sb) == Len(sb.production_design.recurring_elements) + Len(sb.scenes)

Sample == StoryboardJson(1, <<5, 0>>)
\* JSON objects that lack a required field of the Storyboard shape
MissingField ==
  { EmptyObject,
    Drop(Sample, "title"),
    Drop(Sample, "production_design"),
    Drop(Sample, "scenes"),
    [Sample EXCEPT !.production_design = Drop(@, "art_style")],
    [Sample EXCEPT !.production_design = Drop(@, "recurring_elements")] }

\* response.text of generateContent: absent/empty, not JSON, or JSON text
AnalysisTexts ==
  { [kind |-> "empty"], [kind |-> "malformed"], [kind |-> "json", value |-> Null] }
  \cup { [kind |-> "json", value |-> v] : v \in WellShaped \cup MissingField }

ServiceFailures == { JsError("Service unavailable"), JsError("") }

AnalysisResponses ==
  { [type |-> "reject", error |-> e] : e \in ServiceFailures }
  \cup { [type |-> "response", text |-> t] : t \in AnalysisTexts }

\* the answers tried where an abandoned run and a new one overlap
FewImages(resp) ==
  (resp.type = "response" /\ resp.text.kind = "json" /\ resp.text.value \in WellShaped)
    => Images(resp.text.value) <= MaxImages

ImageResponses(data) ==
  { [type |-> "reject", error |-> e] : e \in ServiceFailures }
  \cup { [type |-> "response", candidates |-> <<>>],
         [type |-> "response",
          candidates |-> << [content |-> [parts |-> << [text |-> "ok"] >>]] >>] }
  \cup { [type |-> "response",
          candidates |-> << [content |-> [parts |-> << [text |-> "ok"],
                                                       [inlineData |-> [data |-> d]] >>]] >>]
         : d \in data }

\* ------------------------------------------ GeminiService.analyzeAudio
\* JSON.parse(response.text || "{}")
JsonParse(text) ==
  IF text.kind = "malformed" THEN Throw(JsError("SyntaxError"))
  ELSE IF text.kind = "empty" THEN Return(EmptyObject)
  ELSE Return(text.value)

analyzeAudio(resp) ==
  IF resp.type = "reject" THEN Throw(resp.error)
  ELSE LET parsed == JsonParse(resp.text) IN
       IF ~parsed.ok THEN Throw(JsError("Failed to interpret audio storyboard."))
       ELSE LET result == parsed.value IN
            IF result = Null
            THEN Throw(JsError("Failed to interpret audio storyboard."))
            ELSE IF Has(result, "scenes")
                 THEN Return([result EXCEPT !.scenes = SortScenes(@)])
                 ELSE Return(result)

\* ----------------------------------------- GeminiService.generateImage
\* `data:image/png;base64,${data}`: the text before the comma and the text after it
DataUrl(data) == <<"data:image/png;base64", data>>
\* img.split(',')[1] || img
InlinePayload(img) == IF Len(img) >= 2 /\ img[2] # <<>> THEN img[2] ELSE img

GenParts(prompt, referenceImages) ==
  [k \in 1..Len(referenceImages) |->
     [inlineData |-> [data |-> InlinePayload(referenceImages[k]), mimeType |-> "image/png"]]]
  \o << [text |-> prompt] >>

\* the body of one attempt once the response is in (lines 123-131)
RECURSIVE FirstInline(_)
FirstInline(parts) ==
  IF parts = <<>> THEN Throw(JsError("No image data in response."))
  ELSE IF Has(parts[1], "inlineData")
       THEN Return(DataUrl(parts[1].inlineData.data))
       ELSE FirstInline(Tail(parts))

AttemptResult(resp) ==
  IF resp.type = "reject" THEN Throw(resp.error)
  ELSE IF resp.candidates = <<>> THEN Throw(JsError("No output candidate."))
  ELSE FirstInline(resp.candidates[1].content.parts)

\* an activation of generateImage: where it stands, what it has done so far
NoGen == [st |-> "none"]

\* the head of the for loop: attempt <= retries, else line 137
GenLoop(g) ==
  IF g.attempt <= g.retries
  THEN [g EXCEPT !.st = "request", !.attempts = @ + 1]
  ELSE [g EXCEPT !.st = "threw", !.error = JsError("Generation failed.")]

generateImage(prompt, referenceImages, retries) ==
  GenLoop([st |-> "start", prompt |-> prompt, referenceImages |-> referenceImages,
           retries |-> retries, attempt |-> 0, attempts |-> 0, delays |-> <<>>,
           value |-> <<>>, error |-> JsError("")])

\* the catch clause giving up one attempt early
GenCatchOneShort(g, err) ==
  IF g.attempt + 1 >= g.retries
  THEN [g EXCEPT !.st = "threw", !.error = err]
  ELSE [g EXCEPT !.st = "sleep", !.delays = Append(@, BackoffUnitMs * (g.attempt + 1))]

\* the catch clause with the backoff computed from the 0-based attempt
GenCatchZeroBased(g, err) ==
  IF g.attempt = g.retries
  THEN [g EXCEPT !.st = "threw", !.error = err]
  ELSE [g EXCEPT !.st = "sleep", !.delays = Append(@, BackoffUnitMs * g.attempt)]

\* the catch clause of an attempt: rethrow on the last one, else sleep
GenCatch(g, err) ==
  IF g.attempt = g.retries
  THEN [g EXCEPT !.st = "threw", !.error = err]
  ELSE [g EXCEPT !.st = "sleep", !.delays = Append(@, BackoffUnitMs * (g.attempt + 1))]

GenOnResponse(g, resp) ==
  LET r == AttemptResult(resp) IN
  IF r.ok THEN [g EXCEPT !.st = "returned", !.value = r.value]
  ELSE GenCatch(g, r.error)

\* the timer fires: attempt++ and back to the head of the loop
GenOnTimer(g) == GenLoop([g EXCEPT !.attempt = @ + 1])

\* ------------------------------------------------------------- state
VARIABLES
  state, audioFile, audioUrl, storyboard, currentSceneIndex, progress, error,
                \* the React state of App
  runs,         \* the invocations of processAudio: position and local variables
  inflight,     \* the requests sent to the service and not yet answered
  callLog,      \* per run and api, the requests counted by an instrumented service
  gen,          \* an activation of generateImage called on its own
  genTrace,     \* the results of the attempts of gen so far
  analysis      \* a call of analyzeAudio on its own: the answer and the result

vars == <<state, audioFile, audioUrl, storyboard, currentSceneIndex, progress, error,
          runs, inflight, callLog, gen, genTrace, analysis>>

\* ------------------------------------------------------------- files
AudioMpeg == <<"a", "u", "d", "i", "o", "/", "m", "p", "e", "g">>
ImagePng == <<"i", "m", "a", "g", "e", "/", "p", "n", "g">>
AudioNoSlash == <<"a", "u", "d", "i", "o">>
Files == { [name |-> "song.mp3", type |-> AudioMpeg],
           [name |-> "cover.png", type |-> ImagePng],
           [name |-> "audio", type |-> AudioNoSlash] }
\* e.target.files: nothing chosen, or one file
FileLists == {<<>>} \cup {<<f>> : f \in Files}

\* startsWith comparing the first five characters only
StartsWithFive(s, prefix) ==
  Len(s) >= 5 /\ SubSeq(s, 1, 5) = SubSeq(prefix, 1, 5)

\* String.prototype.startsWith
StartsWith(s, prefix) ==
  Len(s) >= Len(prefix) /\ SubSeq(s, 1, Len(prefix)) = prefix

\* ------------------------------------------------- processAudio, locals
IdleRun ==
  [pc |-> "idle", outcome |-> "none", caught |-> Null, file |-> Null, sb |-> Null, i |-> 0,
   updatedElements |-> <<>>, refImages |-> <<>>, updatedScenes |-> <<>>, g |-> NoGen]

\* processAudio has returned, normally or through its catch clause with err:
\* its locals are gone
Finished(outcome, err) ==
  [IdleRun EXCEPT !.pc = "done", !.outcome = outcome, !.caught = err]

Working(r) == r.pc \in {"reading", "unread", "analyzing", "elements", "scenes"}

Style(sb) ==
  IF Has(sb.production_design, "art_style") THEN sb.production_design.art_style
  ELSE "undefined"

ElementPrompt(sb, el) ==
  [kind |-> "element", style |-> Style(sb), subject |-> el.name,
   description |-> el.description]

ScenePrompt(sb, scene) ==
  [kind |-> "scene", style |-> Style(sb), subject |-> scene.visual_prompt]

AnalyzeRequest(id, file) ==
  [run |-> id, api |-> "analyzeAudio", data |-> [base64 |-> file.name],
   mimeType |-> file.type]

ImageRequest(id, g) ==
  [run |-> id, api |-> "generateImage", parts |-> GenParts(g.prompt, g.referenceImages),
   attempt |-> g.attempt]

\* the image the service draws for a request
ServiceImage(q) ==
  LET p == q.parts[Len(q.parts)].text IN <<q.run, p.kind, p.subject>>

\* a step of processAudio works on a context: the React state it writes, its own
\* locals, the requests it sends and the setState calls it makes
SetState(c, s) == [c EXCEPT !.state = s, !.stateCalls = Append(@, s)]

\* the catch clause with a setProgress(0) added to it
CatchClearsProgress(c, err) ==
  LET msg == IF err.message = "" THEN "An error occurred." ELSE err.message IN
  [SetState([c EXCEPT !.error = msg, !.progress = 0], ERROR)
     EXCEPT !.run = Finished("error", err)]

\* the catch clause without its setError
CatchNoMessage(c, err) ==
  [SetState(c, ERROR) EXCEPT !.run = Finished("error", err)]

\* catch (err): setError(err.message || "An error occurred."); setState(ERROR)
Catch(c, err) ==
  LET msg == IF err.message = "" THEN "An error occurred." ELSE err.message IN
  [SetState([c EXCEPT !.error = msg], ERROR) EXCEPT !.run = Finished("error", err)]

\* const imageUrl = await generateImage(...): up to the await
Suspend(c, g) ==
  IF g.st = "request"
  THEN [c EXCEPT !.run.g = g, !.sent = @ \cup {ImageRequest(c.id, g)}]
  ELSE IF g.st = "threw" THEN Catch(c, g.error)
  ELSE [c EXCEPT !.run.g = g]

AwaitImage(c, prompt, referenceImages) ==
  Suspend(c, generateImage(prompt, referenceImages, DefaultRetries))

\* ScenesLoop with its bound one short: the last scene is not generated
ScenesLoopOneShort(c) ==
  LET sb == c.run.sb
      total == Len(sb.scenes)
      i == c.run.i
  IN IF i + 1 < total
     THEN AwaitImage([c EXCEPT !.progress = RoundPercent(i + 1, total)],
                     ScenePrompt(sb, sb.scenes[i + 1]), c.run.refImages)
     ELSE [SetState(c, READY) EXCEPT !.run = Finished("ready", Null)]

\* the head of the Phase 3 loop, with i already set
ScenesLoop(c) ==
  LET sb == c.run.sb
      total == Len(sb.scenes)
      i == c.run.i
  IN IF i < total
     THEN AwaitImage([c EXCEPT !.progress = RoundPercent(i + 1, total)],
                     ScenePrompt(sb, sb.scenes[i + 1]), c.run.refImages)
     ELSE [SetState(c, READY) EXCEPT !.run = Finished("ready", Null)]

ImageUrls(elements) == [k \in 1..Len(elements) |-> elements[k].imageUrl]

\* StartPhase3 with the reference images left out
StartPhase3NoRefs(c) ==
  LET c1 == SetState(c, GENERATING_IMAGES)
  IN IF ~Has(c.run.sb, "scenes") THEN Catch(c1, TypeErrorReading("length"))
     ELSE ScenesLoop([c1 EXCEPT !.run.pc = "scenes", !.run.i = 0,
                                !.run.refImages = <<>>,
                                !.run.updatedScenes = <<>>])

\* lines 108-111
StartPhase3(c) ==
  LET c1 == SetState(c, GENERATING_IMAGES)
      refImages == ImageUrls(SelectSeq(c.run.updatedElements,
                                       LAMBDA e : Has(e, "imageUrl")))
  IN IF ~Has(c.run.sb, "scenes") THEN Catch(c1, TypeErrorReading("length"))
     ELSE ScenesLoop([c1 EXCEPT !.run.pc = "scenes", !.run.i = 0,
                                !.run.refImages = refImages,
                                !.run.updatedScenes = <<>>])

\* ElementsLoop with the next element's call issued without awaiting this one
ElementsLoopNoAwait(c) ==
  LET sb == c.run.sb
      els == sb.production_design.recurring_elements
      i == c.run.i
  IN IF i < Len(els)
     THEN LET d == AwaitImage([c EXCEPT !.progress = RoundPercent(i + 1, Len(els))],
                              ElementPrompt(sb, els[i + 1]), <<>>)
          IN IF i + 1 < Len(els)
             THEN [d EXCEPT !.sent = @ \cup
                     {ImageRequest(c.id, generateImage(ElementPrompt(sb, els[i + 2]),
                                                       <<>>, DefaultRetries))}]
             ELSE d
     ELSE StartPhase3(c)

\* the head of the Phase 2 loop, with i already set
ElementsLoop(c) ==
  LET sb == c.run.sb
      els == sb.production_design.recurring_elements
      i == c.run.i
  IN IF i < Len(els)
     THEN AwaitImage([c EXCEPT !.progress = RoundPercent(i + 1, Len(els))],
                     ElementPrompt(sb, els[i + 1]), <<>>)
     ELSE StartPhase3(c)

\* StartPhase2 without its setState(DESIGNING_ELEMENTS)
StartPhase2NoSetState(c, sb) ==
  LET c1 == [c EXCEPT !.storyboard = sb, !.run.sb = sb]
  IN IF ~Has(sb, "production_design")
     THEN Catch(c1, TypeErrorReading("recurring_elements"))
     ELSE IF ~Has(sb.production_design, "recurring_elements")
     THEN Catch(c1, TypeErrorReading("length"))
     ELSE ElementsLoop([c1 EXCEPT !.run.pc = "elements", !.run.i = 0,
                                  !.run.updatedElements = <<>>])

\* lines 84-89
StartPhase2(c, sb) ==
  LET c1 == SetState([c EXCEPT !.storyboard = sb, !.run.sb = sb], DESIGNING_ELEMENTS)
  IN IF ~Has(sb, "production_design")
     THEN Catch(c1, TypeErrorReading("recurring_elements"))
     ELSE IF ~Has(sb.production_design, "recurring_elements")
     THEN Catch(c1, TypeErrorReading("length"))
     ELSE ElementsLoop([c1 EXCEPT !.run.pc = "elements", !.run.i = 0,
                                  !.run.updatedElements = <<>>])

\* OnAnalysis with an empty Storyboard standing in for a failed analysis
OnAnalysisFallback(c, resp) ==
  LET r == analyzeAudio(resp) IN
  IF r.ok THEN StartPhase2(c, r.value) ELSE StartPhase2(c, StoryboardJson(0, <<>>))

\* const sb = await analyzeAudio(...): from the await on
OnAnalysis(c, resp) ==
  LET r == analyzeAudio(resp) IN
  IF r.ok THEN StartPhase2(c, r.value) ELSE Catch(c, r.error)

\* setStoryboard(prev => prev ? {...prev, production_design: {...}} : null)
WithElements(prev, updatedElements) ==
  IF prev = Null THEN Null
  ELSE Put(prev, "production_design",
           Put(IF Has(prev, "production_design") THEN prev.production_design
               ELSE EmptyObject,
               "recurring_elements", updatedElements))

\* setStoryboard(prev => prev ? {...prev, scenes: [...]} : null)
WithScenes(prev, scenes) ==
  IF prev = Null THEN Null ELSE Put(prev, "scenes", scenes)

\* lines 99-104 and back to the head of the loop
ElementDone(c, imageUrl) ==
  LET el == c.run.sb.production_design.recurring_elements[c.run.i + 1]
      updated == Append(c.run.updatedElements, Put(el, "imageUrl", imageUrl))
  IN ElementsLoop([c EXCEPT !.run.updatedElements = updated,
                            !.storyboard = WithElements(@, updated),
                            !.run.i = @ + 1])

\* SceneDone publishing the new image among the scenes as analysed
SceneDoneForgets(c, imageUrl) ==
  LET sb == c.run.sb
      i == c.run.i
      done == Put(sb.scenes[i + 1], "imageUrl", imageUrl)
  IN ScenesLoop([c EXCEPT !.run.updatedScenes = Append(@, done),
                          !.storyboard =
                             WithScenes(@, SubSeq(sb.scenes, 1, i) \o <<done>>
                                             \o SubSeq(sb.scenes, i + 2, Len(sb.scenes))),
                          !.run.i = @ + 1])

\* lines 120-122 and back to the head of the loop
SceneDone(c, imageUrl) ==
  LET sb == c.run.sb
      i == c.run.i
      updated == Append(c.run.updatedScenes, Put(sb.scenes[i + 1], "imageUrl", imageUrl))
  IN ScenesLoop([c EXCEPT !.run.updatedScenes = updated,
                          !.storyboard =
                             WithScenes(@, updated \o SubSeq(sb.scenes, i + 2, Len(sb.scenes))),
                          !.run.i = @ + 1])

\* the awaited generateImage has moved to g
Resume(c, g) ==
  IF g.st = "returned"
  THEN IF c.run.pc = "elements" THEN ElementDone(c, g.value) ELSE SceneDone(c, g.value)
  ELSE Suspend(c, g)

OnImage(c, resp) == Resume(c, GenOnResponse(c.run.g, resp))

OnTimer(c) == Resume(c, GenOnTimer(c.run.g))

\* ------------------------------------------------------------- reset
\* reset without setProgress(0)
resetKeepsProgress(ui) ==
  [ui EXCEPT !.state = IDLE, !.audioFile = Null, !.audioUrl = Null,
             !.storyboard = Null, !.currentSceneIndex = 0, !.error = NullMsg]

\* reset without setStoryboard(null)
resetKeepsStoryboard(ui) ==
  [ui EXCEPT !.state = IDLE, !.audioFile = Null, !.audioUrl = Null,
             !.currentSceneIndex = 0, !.progress = 0, !.error = NullMsg]

reset(ui) ==
  [ui EXCEPT !.state = IDLE, !.audioFile = Null, !.audioUrl = Null,
             !.storyboard = Null, !.currentSceneIndex = 0, !.progress = 0,
             !.error = NullMsg]

ui == [state |-> state, audioFile |-> audioFile, audioUrl |-> audioUrl,
       storyboard |-> storyboard, currentSceneIndex |-> currentSceneIndex,
       progress |-> progress, error |-> error]

\* ----------------------------------------------------------- actions
\* the caption of the Ready view (part_000:247-248) reads
\* storyboard.scenes[currentSceneIndex].timestamp: a TypeError when that
\* element is undefined
ReadyCaption ==
  IF currentSceneIndex + 1 \in 1..Len(storyboard.scenes)
  THEN Return(storyboard.scenes[currentSceneIndex + 1].timestamp)
  ELSE Throw(TypeErrorReading("timestamp"))

\* rendering the Ready view: the reads that can throw, in the order of the JSX
\* (storyboard.production_design.recurring_elements.map, line 220;
\* storyboard.scenes[currentSceneIndex]?.imageUrl, line 238; the caption)
ReadyView ==
  IF ~Has(storyboard, "production_design")
  THEN Throw(TypeErrorReading("recurring_elements"))
  ELSE IF ~Has(storyboard.production_design, "recurring_elements")
  THEN Throw(TypeErrorReading("map"))
  ELSE IF ~Has(storyboard, "scenes")
  THEN Throw(TypeErrorReading(ToString(currentSceneIndex)))
  ELSE ReadyCaption

\* App's return statement: the views of the other states read nothing that can
\* be undefined; the Ready view is rendered when storyboard is set
Render ==
  IF state = READY /\ storyboard # Null THEN ReadyView ELSE Return(state)

\* An error thrown while rendering is caught by no error boundary: React
\* unmounts the tree. No control is left to call a handler, and the setters
\* called by a run still under way change nothing; the state stays as it was
\* when the render threw, so that render keeps telling whether App is mounted.
Mounted == Render.ok

Context(id) ==
  [id |-> id, state |-> state, storyboard |-> storyboard, progress |-> progress,
   error |-> error, run |-> runs[id], sent |-> {}, stateCalls |-> <<>>]

\* a request is no longer outstanding once its promise has settled
Settle(outstanding, q) == outstanding \ {q}

Commit(c, settled) ==
  /\ IF Mounted
     THEN /\ state' = c.state
          /\ storyboard' = c.storyboard
          /\ progress' = c.progress
          /\ error' = c.error
     ELSE UNCHANGED <<state, storyboard, progress, error>>
  /\ runs' = [runs EXCEPT ![c.id] = c.run]
  /\ inflight' = (IF settled = {} THEN inflight
                  ELSE Settle(inflight, CHOOSE q \in settled : TRUE)) \cup c.sent

\* the instrumentation of the service: off, or counting the requests it receives
NoCalls == [analyzeAudio |-> 0, generateImage |-> 0]

\* the requests a step sends: the ones outstanding after it that were not
\* outstanding before it or were settled by it (a request equal to the one
\* the step settles is a new call)
Received(settled, id, api) ==
  {q \in inflight' \ (inflight \ settled) : q.run = id /\ q.api = api}

Uncounted(Handler, settled) == Handler /\ UNCHANGED callLog

Counted(Handler, settled) ==
  /\ Handler
  /\ callLog' = [id \in RunIds |->
                   [api \in DOMAIN NoCalls |->
                      callLog[id][api] + Cardinality(Received(settled, id, api))]]

Init ==
  /\ state = IDLE
  /\ audioFile = Null
  /\ audioUrl = Null
  /\ storyboard = Null
  /\ currentSceneIndex = 0
  /\ progress = 0
  /\ error = NullMsg
  /\ runs = [id \in RunIds |-> IdleRun]
  /\ inflight = {}
  /\ callLog = [id \in RunIds |-> NoCalls]
  /\ gen = NoGen
  /\ genTrace = <<>>
  /\ analysis = [st |-> "none"]

\* handleFileUpload (it tests the chosen file only, not the state)
HandleFileUpload(files) ==
  /\ IF files # <<>>
     THEN LET file == files[1] IN
          IF ~StartsWith(file.type, <<"a", "u", "d", "i", "o", "/">>)
          THEN /\ error' = "Please upload a valid audio file."
               /\ UNCHANGED <<audioFile, audioUrl>>
          ELSE /\ audioFile' = file
               /\ audioUrl' = [blob |-> file.name]
               /\ error' = NullMsg
     ELSE UNCHANGED <<audioFile, audioUrl, error>>
  /\ UNCHANGED <<state, storyboard, currentSceneIndex, progress, runs, inflight,
                 gen, genTrace, analysis>>

\* the file input is part of the Idle view
FileChosen(files) == state = IDLE /\ HandleFileUpload(files)

\* handleFileUpload called whatever view is shown
UploadCommand(files) == Mounted /\ HandleFileUpload(files)

\* processAudio up to the await of the FileReader: it returns at once without
\* a file and tests nothing else; id is the next invocation
ProcessAudio(id) ==
  /\ audioFile # Null
  /\ runs[id].pc = "idle"
  /\ \A j \in RunIds : j < id => runs[j].pc # "idle"
  /\ state' = ANALYZING
  /\ error' = NullMsg
  /\ progress' = InitialProgress
  /\ runs' = [runs EXCEPT ![id] = [IdleRun EXCEPT !.pc = "reading", !.file = audioFile]]
  /\ UNCHANGED <<audioFile, audioUrl, storyboard, currentSceneIndex, inflight,
                 gen, genTrace, analysis>>

\* the Start button is part of the Idle view
StartClicked(id) == state = IDLE /\ ProcessAudio(id)

\* processAudio called whatever view is shown, also while a run is under way
StartCommand(id) == Mounted /\ ProcessAudio(id)

\* reader.onload: the call of analyzeAudio, up to its await
FileLoaded(id) ==
  /\ runs[id].pc = "reading"
  /\ runs' = [runs EXCEPT ![id].pc = "analyzing"]
  /\ inflight' = inflight \cup {AnalyzeRequest(id, runs[id].file)}
  /\ UNCHANGED <<state, audioFile, audioUrl, storyboard, currentSceneIndex, progress,
                 error, gen, genTrace, analysis>>

\* the read fails: the FileReader fires its error event, for which
\* processAudio sets no handler; base64Promise never settles and the run
\* waits at its await for good
FileReadFailed(id) ==
  /\ runs[id].pc = "reading"
  /\ runs' = [runs EXCEPT ![id].pc = "unread"]
  /\ UNCHANGED <<state, audioFile, audioUrl, storyboard, currentSceneIndex, progress,
                 error, inflight, gen, genTrace, analysis>>

AnalysisAnswered(q, resp) ==
  /\ q \in inflight
  /\ q.api = "analyzeAudio"
  /\ Commit(OnAnalysis(Context(q.run), resp), {q})
  /\ UNCHANGED <<audioFile, audioUrl, currentSceneIndex, gen, genTrace, analysis>>

ImageAnswered(q, resp) ==
  /\ q \in inflight
  /\ q.api = "generateImage"
  /\ Commit(OnImage(Context(q.run), resp), {q})
  /\ UNCHANGED <<audioFile, audioUrl, currentSceneIndex, gen, genTrace, analysis>>

BackoffElapsed(id) ==
  /\ runs[id].pc \in {"elements", "scenes"}
  /\ runs[id].g.st = "sleep"
  /\ Commit(OnTimer(Context(id)), {})
  /\ UNCHANGED <<audioFile, audioUrl, currentSceneIndex, gen, genTrace, analysis>>

Reset ==
  /\ LET r == reset(ui) IN
       /\ state' = r.state
       /\ audioFile' = r.audioFile
       /\ audioUrl' = r.audioUrl
       /\ storyboard' = r.storyboard
       /\ currentSceneIndex' = r.currentSceneIndex
       /\ progress' = r.progress
       /\ error' = r.error
  /\ UNCHANGED <<runs, inflight, gen, genTrace, analysis>>

\* the two buttons wired to reset: "Try Again" of the Error view and the
\* refresh button of the Ready view, which is shown when storyboard is set
\* and the view renders
ResetRendered ==
  Mounted /\ (state = ERROR \/ (state = READY /\ storyboard # Null))

ResetClicked == ResetRendered /\ Reset

\* reset() has no condition of its own: as the command of the pipeline's
\* interface it may arrive in any state, also while a run is under way
ResetCommand == Mounted /\ Reset

\* the reduce with time > c.timestamp for its test
RECURSIVE SceneAtStrict(_, _, _, _)
SceneAtStrict(scenes, time, k, p) ==
  IF k > Len(scenes) THEN p
  ELSE SceneAtStrict(scenes, time, k + 1, IF time > scenes[k].timestamp THEN k - 1 ELSE p)

\* Array.prototype.reduce((p, c, i) => time >= c.timestamp ? i : p, 0)
RECURSIVE SceneAt(_, _, _, _)
SceneAt(scenes, time, k, p) ==
  IF k > Len(scenes) THEN p
  ELSE SceneAt(scenes, time, k + 1, IF time >= scenes[k].timestamp THEN k - 1 ELSE p)

\* the audio element is part of the Ready view, shown when storyboard is set
\* and the view renders
OnTimeUpdate(time) ==
  /\ state = READY
  /\ storyboard # Null
  /\ Mounted
  /\ LET idx == SceneAt(storyboard.scenes, time, 1, 0) IN
       currentSceneIndex' = IF idx # currentSceneIndex THEN idx ELSE currentSceneIndex
  /\ UNCHANGED <<state, audioFile, audioUrl, storyboard, progress, error, runs,
                 inflight, gen, genTrace, analysis>>

Outstanding(api) == {q \in inflight : q.api = api}

\* an outstanding call settles, at a service that counts its calls or not
AnyAnalysisAnswered(responses, counting) ==
  \E q \in Outstanding("analyzeAudio") : \E resp \in responses :
     IF counting THEN Counted(AnalysisAnswered(q, resp), {q})
     ELSE Uncounted(AnalysisAnswered(q, resp), {q})

AnyImageAnswered(counting) ==
  \E q \in Outstanding("generateImage") : \E resp \in ImageResponses({ServiceImage(q)}) :
     IF counting THEN Counted(ImageAnswered(q, resp), {q})
     ELSE Uncounted(ImageAnswered(q, resp), {q})

\* the application as rendered: every handler behind the view that shows it
Next ==
  \/ Uncounted(\E files \in FileLists : FileChosen(files), {})
  \/ Uncounted(\E id \in RunIds : StartClicked(id), {})
  \/ Uncounted(\E id \in RunIds : FileLoaded(id), {})
  \/ Uncounted(\E id \in RunIds : FileReadFailed(id), {})
  \/ AnyAnalysisAnswered(AnalysisResponses, FALSE)
  \/ AnyImageAnswered(FALSE)
  \/ Uncounted(\E id \in RunIds : BackoffElapsed(id), {})
  \/ Uncounted(ResetClicked, {})
  \/ Uncounted(\E time \in PlaybackTimes : OnTimeUpdate(time), {})

Spec == Init /\ [][Next]_vars

\* the pipeline driven through its handlers called as commands: upload, start
\* and reset arrive at any moment while App is mounted
NextCommands ==
  \/ Uncounted(\E files \in FileLists : UploadCommand(files), {})
  \/ Uncounted(\E id \in RunIds : StartCommand(id), {})
  \/ Uncounted(\E id \in RunIds : FileLoaded(id), {})
  \/ Uncounted(\E id \in RunIds : FileReadFailed(id), {})
  \/ AnyAnalysisAnswered({resp \in AnalysisResponses : FewImages(resp)}, FALSE)
  \/ AnyImageAnswered(FALSE)
  \/ Uncounted(\E id \in RunIds : BackoffElapsed(id), {})
  \/ Uncounted(ResetCommand, {})
  \/ Uncounted(\E time \in PlaybackTimes : OnTimeUpdate(time), {})

SpecCommands == Init /\ [][NextCommands]_vars

\* the application as rendered, run against the instrumented service
NextCounted ==
  \/ Counted(\E files \in FileLists : FileChosen(files), {})
  \/ Counted(\E id \in RunIds : StartClicked(id), {})
  \/ Counted(\E id \in RunIds : FileLoaded(id), {})
  \/ Counted(\E id \in RunIds : FileReadFailed(id), {})
  \/ AnyAnalysisAnswered(AnalysisResponses, TRUE)
  \/ AnyImageAnswered(TRUE)
  \/ Counted(\E id \in RunIds : BackoffElapsed(id), {})
  \/ Counted(ResetClicked, {})
  \/ Counted(\E time \in PlaybackTimes : OnTimeUpdate(time), {})

SpecCounted == Init /\ [][NextCounted]_vars

\* the same, with every pending continuation run in the end: the FileReader
\* ends its read, with the file loaded or with an error; every call of the
\* service is answered or fails; every timer fires
SpecFair ==
  /\ SpecCounted
  /\ WF_vars(Counted(\E id \in RunIds : FileLoaded(id) \/ FileReadFailed(id), {}))
  /\ WF_vars(AnyAnalysisAnswered(AnalysisResponses, TRUE))
  /\ WF_vars(AnyImageAnswered(TRUE))
  /\ WF_vars(Counted(\E id \in RunIds : BackoffElapsed(id), {}))

\* ----------------------------------- the Generation Client on its own
GenPrompts == { [kind |-> "element", style |-> "noir", subject |-> 1, description |-> 1] }
GenData == { <<"imgA">>, <<"imgB">> }
GenReferences == { <<>>, <<DataUrl(<<"ref">>)>> }

GenResponses ==
  ImageResponses(GenData)
  \cup { [type |-> "response",
          candidates |-> << [content |-> [parts |-> << [inlineData |-> [data |-> <<"imgB">>]],
                                                       [inlineData |-> [data |-> <<"imgA">>]] >>]] >>] }

ClientInit ==
  /\ state = IDLE
  /\ audioFile = Null
  /\ audioUrl = Null
  /\ storyboard = Null
  /\ currentSceneIndex = 0
  /\ progress = 0
  /\ error = NullMsg
  /\ runs = [id \in RunIds |-> IdleRun]
  /\ inflight = {}
  /\ callLog = [id \in RunIds |-> NoCalls]
  /\ \E prompt \in GenPrompts, refs \in GenReferences, retries \in -1..MaxRetriesArg :
        gen = generateImage(prompt, refs, retries)
  /\ genTrace = <<>>
  /\ analysis = [st |-> "request"]

App == <<state, audioFile, audioUrl, storyboard, currentSceneIndex, progress, error,
         runs, inflight, callLog>>

GenAnswered(resp) ==
  /\ gen.st = "request"
  /\ gen' = GenOnResponse(gen, resp)
  /\ genTrace' = Append(genTrace, AttemptResult(resp))
  /\ UNCHANGED <<App, analysis>>

GenTimer ==
  /\ gen.st = "sleep"
  /\ gen' = GenOnTimer(gen)
  /\ UNCHANGED <<App, genTrace, analysis>>

AnalysisCall(resp) ==
  /\ analysis.st = "request"
  /\ analysis' = [st |-> "settled", response |-> resp, result |-> analyzeAudio(resp)]
  /\ UNCHANGED <<App, gen, genTrace>>

ClientNext ==
  \/ \E resp \in GenResponses : GenAnswered(resp)
  \/ GenTimer
  \/ \E resp \in AnalysisResponses : AnalysisCall(resp)

SpecClient == ClientInit /\ [][ClientNext]_vars

\* ======================================================== properties
PipelineFields == <<state, storyboard, progress, error>>

AfterReset == state = IDLE /\ storyboard = Null /\ progress = 0 /\ error = NullMsg

\* a continuation of run id has run in this step
Continued(id) == Working(runs[id]) /\ runs'[id] # runs[id]

\* C1: once reset() has put the system in Idle with no Storyboard, progress 0 and
\* no error, a step of a run that was under way when reset() was issued (the
\* answer to its call in flight, and every later step of it) changes none of the
\* pipeline state, the Storyboard, progress and error.  A run that is still
\* working while the state is Idle was abandoned by a reset, since every run
\* leaves Idle when it starts.
C1_AbandonedRunIgnored ==
  [][(AfterReset /\ \E id \in RunIds : Continued(id)) => UNCHANGED PipelineFields]_vars

\* the edges of the state machine
Edges ==
  { <<IDLE, ANALYZING>>, <<ANALYZING, DESIGNING_ELEMENTS>>,
    <<DESIGNING_ELEMENTS, GENERATING_IMAGES>>, <<GENERATING_IMAGES, READY>> }
  \cup { <<w, ERROR>> : w \in {ANALYZING, DESIGNING_ELEMENTS, GENERATING_IMAGES} }

\* from the state `from`, every setState call of `calls` follows an edge
FollowsEdges(from, calls) ==
  LET path == <<from>> \o calls IN
  \A k \in 1..Len(calls) : path[k] = path[k + 1] \/ <<path[k], path[k + 1]>> \in Edges

\* C2: every change of the pipeline state is one of the edges Idle->Analyzing,
\* Analyzing->DesigningElements, DesigningElements->GeneratingImages,
\* GeneratingImages->Ready, a working state->Error, or a reset to Idle: each
\* setState call of each step of processAudio follows an edge from the state
\* the call before it left, and the state changes in no other step.
C2_OnlyTheEdges ==
  [][/\ \A id \in RunIds : ProcessAudio(id) => FollowsEdges(state, <<ANALYZING>>)
     /\ \A q \in Outstanding("analyzeAudio") : \A resp \in AnalysisResponses :
          AnalysisAnswered(q, resp)
            => FollowsEdges(state, OnAnalysis(Context(q.run), resp).stateCalls)
     /\ \A q \in Outstanding("generateImage") :
          \A resp \in ImageResponses({ServiceImage(q)}) :
            ImageAnswered(q, resp)
              => FollowsEdges(state, OnImage(Context(q.run), resp).stateCalls)
     /\ \A id \in RunIds :
          BackoffElapsed(id) => FollowsEdges(state, OnTimer(Context(id)).stateCalls)
     /\ Reset => state' = IDLE
     /\ state' # state =>
          \/ \E id \in RunIds : ProcessAudio(id) \/ BackoffElapsed(id)
          \/ \E q \in inflight : \E id \in RunIds : Continued(id) /\ q \notin inflight'
          \/ Reset
    ]_vars

\* C2 witness: a run has gone through the whole chain of edges to Ready
C2_Witness ==
  /\ state = READY
  /\ \E id \in RunIds : runs[id].outcome = "ready"
  /\ storyboard # Null
  /\ Images(storyboard) = 2

\* C3: in Ready and in Error, every step leaves the state, the Storyboard,
\* progress and error unchanged, except a reset(), which leads to Idle with
\* the run state discarded.
C3_ReadyErrorTerminal ==
  [][(state = READY \/ state = ERROR)
       => (UNCHANGED PipelineFields \/ (Reset /\ AfterReset'))]_vars

\* C3 witness: a time update has acted in Ready, and left Ready in place
C3_Witness ==
  /\ state = READY
  /\ currentSceneIndex = 1
  /\ error = NullMsg

\* C4: reset() in any pipeline state gives state Idle, no Storyboard, progress 0
\* and no error, and a second reset() right after it changes nothing.
C4_ResetIdempotent ==
  [][Reset => /\ AfterReset'
              /\ audioFile' = Null /\ currentSceneIndex' = 0
              /\ reset(ui') = ui'
    ]_vars

\* C4 witness: reset() has acted while a run was generating scene images
C4_Witness ==
  /\ AfterReset
  /\ audioFile = Null
  /\ \E id \in RunIds : runs[id].pc = "scenes" /\ runs[id].g.st = "request"

\* C5 as stated: at every moment at most one request to the service is
\* outstanding, across any sequence of start and reset commands and answers.
C5_OneOutstanding == Cardinality(inflight) <= 1

RequestsOf(id) == {q \in inflight : q.run = id}

\* C5 as amended: every run has at most one request outstanding at every moment:
\* a run issues its next call only after its previous call has been answered.
C5_OneOutstandingPerRun ==
  \A id \in RunIds :
    /\ Cardinality(RequestsOf(id)) <= 1
    /\ RequestsOf(id) # {} =>
         \/ runs[id].pc = "analyzing"
         \/ runs[id].pc \in {"elements", "scenes"} /\ runs[id].g.st = "request"

\* C5 witness: an abandoned run and the run started after the reset both wait
\* for an answer, the abandoned one for a retried image
C5_Witness ==
  /\ Cardinality(inflight) = 2
  /\ \E q \in inflight : q.api = "generateImage" /\ q.attempt = 1

AllFailed(trace) == \A j \in 1..Len(trace) : ~trace[j].ok

\* C6: with retries >= 0 and k <= retries, when the first k attempts of
\* generateImage fail and attempt k+1 succeeds, generateImage returns the image
\* of attempt k+1 after exactly k+1 attempts; and as long as no more than
\* `retries` attempts have failed it has not given up.
C6_SuccessAfterFailures ==
  gen.retries >= 0 =>
    /\ \A k \in 0..gen.retries :
         (Len(genTrace) >= k + 1 /\ AllFailed(SubSeq(genTrace, 1, k)) /\ genTrace[k + 1].ok)
           => /\ gen.st = "returned"
              /\ gen.value = genTrace[k + 1].value
              /\ gen.attempts = k + 1
              /\ Len(genTrace) = k + 1
    /\ (AllFailed(genTrace) /\ Len(genTrace) <= gen.retries)
         => \/ gen.st = "request" /\ gen.attempts = Len(genTrace) + 1
            \/ gen.st = "sleep" /\ gen.attempts = Len(genTrace)

\* C6 witness: two failed attempts, then the third one, the last allowed by the
\* default, has returned its image
C6_Witness ==
  /\ gen.retries = DefaultRetries
  /\ gen.st = "returned"
  /\ Len(genTrace) = 3
  /\ gen.value = DataUrl(<<"imgB">>)

\* C7: when every attempt of generateImage fails (retries >= 0), it makes
\* exactly retries + 1 attempts, sleeps 1500 ms * n after the n-th failure for
\* n = 1..retries and not after the last one, and throws the error of the last
\* attempt.
C7_AllAttemptsFail ==
  gen.retries >= 0 =>
    /\ (AllFailed(genTrace) /\ Len(genTrace) = gen.retries + 1)
         => /\ gen.st = "threw"
            /\ gen.error = genTrace[Len(genTrace)].error
            /\ gen.attempts = gen.retries + 1
            /\ gen.delays = [n \in 1..gen.retries |-> 1500 * n]
    /\ gen.st = "threw" => (AllFailed(genTrace) /\ Len(genTrace) = gen.retries + 1)
    /\ gen.st = "sleep" => gen.delays = [n \in 1..Len(genTrace) |-> 1500 * n]

\* C7 witness: three attempts with the default of two retries have failed, the
\* last one for want of an image
C7_Witness ==
  /\ gen.retries = DefaultRetries
  /\ gen.st = "threw"
  /\ gen.delays = <<1500, 3000>>
  /\ gen.error = JsError("No image data in response.")
  /\ ~genTrace[1].ok /\ genTrace[1].error = JsError("No output candidate.")

ImagedCount(items) == Len(SelectSeq(items, LAMBDA x : Has(x, "imageUrl")))

\* generateImage, awaited by the run of q, throws on the answer resp
ThrowsOn(q, resp) ==
  /\ ImageAnswered(q, resp)
  /\ GenOnResponse(runs[q.run].g, resp).st = "threw"

\* C8: when generateImage for element i or scene i fails after its retries, the
\* run sets the state to Error and ends, with no call outstanding and none
\* issued later; the step leaves the Storyboard and progress as they were: the
\* Storyboard holds the images attached before, none for the failed item, and
\* progress is the value set when the item was begun.  A run that has ended in
\* Error stays ended, and the state leaves Error only for Idle, never for Ready.
C8_FailureAborts ==
  [][/\ \A q \in Outstanding("generateImage") :
          \A resp \in ImageResponses({ServiceImage(q)}) :
            ThrowsOn(q, resp) =>
              LET r == runs[q.run]
                  els == storyboard.production_design.recurring_elements
                  all == r.sb.production_design.recurring_elements
              IN /\ state' = ERROR
                 /\ runs'[q.run].pc = "done" /\ runs'[q.run].outcome = "error"
                 /\ {p \in inflight' : p.run = q.run} = {}
                 /\ storyboard' = storyboard
                 /\ progress' = progress
                 /\ storyboard # Null
                 /\ r.pc = "elements" =>
                      /\ progress = RoundPercent(r.i + 1, Len(all))
                      /\ ImagedCount(els) = r.i
                      /\ \A k \in 1..r.i : els[k] = r.updatedElements[k]
                      /\ \A k \in 1..Len(els) : k > r.i => ~Has(els[k], "imageUrl")
                      /\ Has(storyboard, "scenes") => ImagedCount(storyboard.scenes) = 0
                 /\ r.pc = "scenes" =>
                      /\ progress = RoundPercent(r.i + 1, Len(r.sb.scenes))
                      /\ ImagedCount(storyboard.scenes) = r.i
                      /\ \A k \in 1..r.i : storyboard.scenes[k] = r.updatedScenes[k]
                      /\ storyboard.scenes[r.i + 1] = r.sb.scenes[r.i + 1]
                      /\ ~Has(storyboard.scenes[r.i + 1], "imageUrl")
                      /\ ImagedCount(els) = Len(all)
     /\ \A id \in RunIds :
          runs[id].outcome = "error" =>
            /\ runs'[id] = runs[id]
            /\ {p \in inflight' : p.run = id} = {}
     /\ state = ERROR => state' \in {ERROR, IDLE}
    ]_vars

\* C8 witness: the second scene has failed after the first one got its image
C8_Witness ==
  /\ state = ERROR
  /\ error = "No output candidate."
  /\ storyboard # Null
  /\ Has(storyboard, "scenes")
  /\ Len(storyboard.scenes) = 2
  /\ Has(storyboard.scenes[1], "imageUrl")
  /\ ~Has(storyboard.scenes[2], "imageUrl")
  /\ progress = 100

\* the run started last
LastRun == CHOOSE id \in RunIds :
             runs[id].pc # "idle" /\ \A j \in RunIds : j > id => runs[j].pc = "idle"

\* the errors with which a call of analyzeAudio or generateImage can fail
CallFailures ==
  ServiceFailures
  \cup { JsError("Failed to interpret audio storyboard."),
         JsError("No output candidate."), JsError("No image data in response.") }

NoErrorWhileWorking ==
  state \in {ANALYZING, DESIGNING_ELEMENTS, GENERATING_IMAGES, READY} => error = NullMsg

\* C9 as stated: in Error the error field is non-null and equals verbatim the
\* message of the failure of the external call that ended the run; in
\* Analyzing, DesigningElements, GeneratingImages and Ready it is null.
C9_ErrorVerbatim ==
  /\ state = ERROR =>
       /\ error # NullMsg
       /\ runs[LastRun].caught \in CallFailures
       /\ error = runs[LastRun].caught.message
  /\ NoErrorWhileWorking

\* C9 as amended: in Error the error field is non-null and equals the message
\* of the error that ended the run, "An error occurred." standing in for an
\* empty message; in the working states and in Ready it is null.
C9_ErrorShown ==
  /\ state = ERROR =>
       /\ error # NullMsg
       /\ runs[LastRun].outcome = "error"
       /\ error = IF runs[LastRun].caught.message = "" THEN "An error occurred."
                  ELSE runs[LastRun].caught.message
  /\ NoErrorWhileWorking

\* C9 witness: a run has ended on a failure that carries no message
C9_Witness ==
  /\ state = ERROR
  /\ runs[LastRun].caught = JsError("")
  /\ error = "An error occurred."

\* the Storyboard shape: title, production_design with art_style and
\* recurring_elements, scenes
ExpectedShape(v) ==
  /\ v # Null
  /\ {"title", "production_design", "scenes"} \subseteq DOMAIN v
  /\ {"art_style", "recurring_elements"} \subseteq DOMAIN v.production_design

\* C10: analyzeAudio fails for every answer that is not of the Storyboard
\* shape (malformed JSON, an empty answer, a JSON object that lacks a required
\* field) and never returns such an answer as a Storyboard.
C10_RejectsMisshapen ==
  analysis.st = "settled" =>
    /\ ( /\ analysis.response.type = "response"
         /\ ~(/\ analysis.response.text.kind = "json"
              /\ ExpectedShape(analysis.response.text.value)) )
         => ~analysis.result.ok
    /\ analysis.result.ok => ExpectedShape(analysis.result.value)

Called(id) == callLog[id]

\* C11: a run calls analyzeAudio exactly once: no run has called it twice, and a
\* run waiting for the analysis or past it has called it once.  When the call
\* fails, the run goes from Analyzing to Error in one setState call with the
\* failure's message recorded ("An error occurred." when the message is empty),
\* the Storyboard stays null, and the run ends having made that one call and
\* no generateImage call; a run ended in Error makes no call afterwards.
C11_AnalyzeOnce ==
  [][/\ \A id \in RunIds :
          /\ Called(id)'.analyzeAudio <= 1
          /\ runs'[id].pc \in {"analyzing", "elements", "scenes", "done"}
               => Called(id)'.analyzeAudio = 1
     /\ \A q \in Outstanding("analyzeAudio") : \A resp \in AnalysisResponses :
          (AnalysisAnswered(q, resp) /\ ~analyzeAudio(resp).ok) =>
             LET msg == analyzeAudio(resp).error.message IN
             /\ state = ANALYZING /\ state' = ERROR
             /\ OnAnalysis(Context(q.run), resp).stateCalls = <<ERROR>>
             /\ error' = IF msg = "" THEN "An error occurred." ELSE msg
             /\ storyboard = Null /\ storyboard' = Null
             /\ runs'[q.run].outcome = "error"
             /\ {p \in inflight' : p.run = q.run} = {}
             /\ Called(q.run)' = [analyzeAudio |-> 1, generateImage |-> 0]
     /\ \A id \in RunIds :
          runs[id].outcome = "error" => Called(id)' = Called(id)
    ]_vars

\* C11 witness: the analysis of a run has failed on an answer that is not JSON
C11_Witness ==
  /\ state = ERROR
  /\ error = "Failed to interpret audio storyboard."
  /\ storyboard = Null
  /\ \E id \in RunIds :
       /\ runs[id].outcome = "error"
       /\ Called(id) = [analyzeAudio |-> 1, generateImage |-> 0]

\* the scenes of a Storyboard, and a scene without its image
SceneSeq(sb) == IF sb # Null /\ Has(sb, "scenes") THEN sb.scenes ELSE <<>>

Bare(item) == IF Has(item, "imageUrl") THEN Drop(item, "imageUrl") ELSE item

BareSeq(items) == [k \in 1..Len(items) |-> Bare(items[k])]

Ascending(scenes) ==
  \A i, j \in 1..Len(scenes) : i < j => scenes[i].timestamp <= scenes[j].timestamp

\* C12: in every step the scenes of the Storyboard after it are ascending by
\* timestamp, whatever the order of the answer; the step that ends Phase 1
\* stores the scenes of the answer, all of them and no others; and from one
\* Storyboard to the next the scenes keep their places.
C12_ScenesSorted ==
  [][/\ Ascending(SceneSeq(storyboard'))
     /\ \A q \in Outstanding("analyzeAudio") : \A resp \in AnalysisResponses :
          (AnalysisAnswered(q, resp) /\ analyzeAudio(resp).ok
             /\ resp.text.kind = "json" /\ Has(resp.text.value, "scenes")) =>
            /\ Len(SceneSeq(storyboard')) = Len(resp.text.value.scenes)
            /\ \A k \in 1..Len(resp.text.value.scenes) :
                 \E n \in 1..Len(SceneSeq(storyboard')) :
                   SceneSeq(storyboard')[n] = resp.text.value.scenes[k]
     /\ (storyboard # Null /\ storyboard' # Null)
          => BareSeq(SceneSeq(storyboard')) = BareSeq(SceneSeq(storyboard))
    ]_vars

\* C12 witness: the service answered the later scene first, and the run has
\* reached Ready with the scenes in the order of their timestamps
C12_Witness ==
  /\ state = READY
  /\ Len(SceneSeq(storyboard)) = 2
  /\ storyboard.scenes[1].description = 2 /\ storyboard.scenes[1].timestamp = 0
  /\ storyboard.scenes[2].description = 1 /\ storyboard.scenes[2].timestamp = 5
  /\ Has(storyboard.scenes[2], "imageUrl")

\* the recurring elements of a Storyboard
ElementSeq(sb) ==
  IF sb # Null /\ Has(sb, "production_design")
       /\ Has(sb.production_design, "recurring_elements")
  THEN sb.production_design.recurring_elements
  ELSE <<>>

\* every item of `before` that has an image is in `after`, at its place, with
\* the same image
ImagesKept(before, after) ==
  \A k \in 1..Len(before) :
    Has(before[k], "imageUrl") => (k <= Len(after) /\ after[k] = before[k])

\* C13: from one published Storyboard to the next, every element and every
\* scene that has an image is still there with the identical image; the
\* Storyboard is taken away only by reset().
C13_SnapshotMonotone ==
  [][/\ (storyboard # Null /\ storyboard' # Null) =>
          /\ ImagesKept(ElementSeq(storyboard), ElementSeq(storyboard'))
          /\ ImagesKept(SceneSeq(storyboard), SceneSeq(storyboard'))
     /\ (storyboard # Null /\ storyboard' = Null) => Reset
    ]_vars

\* C13 witness: with both elements drawn, the first scene has its image and the
\* second one is awaited
C13_Witness ==
  /\ state = GENERATING_IMAGES
  /\ Len(ElementSeq(storyboard)) = 2
  /\ Has(ElementSeq(storyboard)[1], "imageUrl")
  /\ Has(ElementSeq(storyboard)[2], "imageUrl")
  /\ Len(SceneSeq(storyboard)) = 2
  /\ Has(SceneSeq(storyboard)[1], "imageUrl")
  /\ ~Has(SceneSeq(storyboard)[2], "imageUrl")

\* a Storyboard without the images attached to its elements and scenes
Stripped(sb) ==
  LET a == IF Has(sb, "scenes") THEN [sb EXCEPT !.scenes = BareSeq(@)] ELSE sb
  IN IF Has(a, "production_design") /\ Has(a.production_design, "recurring_elements")
     THEN [a EXCEPT !.production_design.recurring_elements = BareSeq(@)]
     ELSE a

\* C14: the step that ends Phase 1 publishes the Storyboard analyzeAudio
\* returned, and every later Storyboard of the run is, but for the images, the
\* one before it: same title, same art_style, all the elements and all the
\* scenes in their order, also those not yet drawn.
C14_OnlyImagesDiffer ==
  [][/\ \A q \in Outstanding("analyzeAudio") : \A resp \in AnalysisResponses :
          (AnalysisAnswered(q, resp) /\ analyzeAudio(resp).ok)
            => Stripped(storyboard') = analyzeAudio(resp).value
     /\ (storyboard # Null /\ storyboard' # Null)
          => Stripped(storyboard') = Stripped(storyboard)
    ]_vars

\* C15: the step in which analyzeAudio succeeds stores the returned Storyboard
\* and enters DesigningElements first of all, and leaves progress at 0
\* (also when the Storyboard has no recurring elements).
C15_ProgressReset ==
  [][\A q \in Outstanding("analyzeAudio") : \A resp \in AnalysisResponses :
        (AnalysisAnswered(q, resp) /\ analyzeAudio(resp).ok) =>
          /\ storyboard' = analyzeAudio(resp).value
          /\ Head(OnAnalysis(Context(q.run), resp).stateCalls) = DESIGNING_ELEMENTS
          /\ state' = DESIGNING_ELEMENTS => progress' = 0
    ]_vars

\* C16: while a run is in Phase 2, progress is round(100 * completed / total)
\* for the number of elements that have their image and the number of
\* recurring elements, so it is below 100 while the last element is awaited;
\* the same for the scenes in Phase 3.
C16_ProgressCompleted ==
  \A id \in RunIds :
    /\ (runs[id].pc = "elements" /\ state = DESIGNING_ELEMENTS) =>
         LET total == Len(runs[id].sb.production_design.recurring_elements)
             completed == ImagedCount(runs[id].updatedElements)
         IN /\ progress = RoundPercent(completed, total)
            /\ progress < 100
    /\ (runs[id].pc = "scenes" /\ state = GENERATING_IMAGES) =>
         LET total == Len(runs[id].sb.scenes)
             completed == ImagedCount(runs[id].updatedScenes)
         IN /\ progress = RoundPercent(completed, total)
            /\ progress < 100

\* the image the service draws for element el, or for scene sc, of run id
DrawnFor(id, kind, subject) == DataUrl(<<id, kind, subject>>)

\* C17: in Ready the Storyboard is non-null and has its elements and scenes,
\* each with the image the service drew on a call made for that very item by
\* the run that reached Ready; that run has made at least one generateImage
\* call per element and per scene.
C17_ReadyComplete ==
  state = READY =>
    /\ storyboard # Null
    /\ Has(storyboard, "production_design")
    /\ Has(storyboard.production_design, "recurring_elements")
    /\ Has(storyboard, "scenes")
    /\ runs[LastRun].outcome = "ready"
    /\ LET els == storyboard.production_design.recurring_elements
           scenes == storyboard.scenes
       IN /\ \A k \in 1..Len(els) :
               /\ Has(els[k], "imageUrl")
               /\ els[k].imageUrl = DrawnFor(LastRun, "element", els[k].name)
          /\ \A k \in 1..Len(scenes) :
               /\ Has(scenes[k], "imageUrl")
               /\ scenes[k].imageUrl = DrawnFor(LastRun, "scene", scenes[k].visual_prompt)
          /\ Called(LastRun).generateImage >= Len(els) + Len(scenes)

\* C17 witness: Ready with two elements and two scenes, after five calls
C17_Witness ==
  /\ state = READY
  /\ Len(ElementSeq(storyboard)) = 2
  /\ Len(SceneSeq(storyboard)) = 2
  /\ Called(LastRun).generateImage = 5

\* the items 1..n of `items`, each with an image, and nothing else
FirstDone(done, items, n) ==
  /\ Len(done) = n
  /\ \A k \in 1..n : Has(done[k], "imageUrl") /\ Bare(done[k]) = items[k]

\* C18: every generateImage request outstanding is, in Phase 2, the prompt of
\* element i+1 alone, with no reference image, the elements 1..i being the ones
\* drawn so far; in Phase 3 it is the prompt of scene i+1 of the scenes in
\* ascending order, preceded by the images of all the recurring elements in
\* element order, every element having its image and the scenes 1..i being
\* the ones drawn so far.
C18_References ==
  \A q \in Outstanding("generateImage") :
    LET r == runs[q.run]
        n == Len(q.parts)
        p == q.parts[n].text
        els == r.sb.production_design.recurring_elements
    IN /\ p.kind = "element" =>
            /\ r.pc = "elements"
            /\ n = 1
            /\ r.i < Len(els)
            /\ p = ElementPrompt(r.sb, els[r.i + 1])
            /\ FirstDone(r.updatedElements, els, r.i)
       /\ p.kind = "scene" =>
            /\ r.pc = "scenes"
            /\ FirstDone(r.updatedElements, els, Len(els))
            /\ n = Len(els) + 1
            /\ \A k \in 1..Len(els) :
                 /\ DataUrl(q.parts[k].inlineData.data) = r.updatedElements[k].imageUrl
                 /\ q.parts[k].inlineData.data = <<q.run, "element", els[k].name>>
            /\ Ascending(r.sb.scenes)
            /\ r.i < Len(r.sb.scenes)
            /\ p = ScenePrompt(r.sb, r.sb.scenes[r.i + 1])
            /\ FirstDone(r.updatedScenes, r.sb.scenes, r.i)

\* C18 witness: the second scene is requested with the images of both elements
C18_Witness ==
  \E q \in Outstanding("generateImage") :
    /\ Len(q.parts) = 3
    /\ q.parts[1].inlineData.data = <<q.run, "element", 1>>
    /\ q.parts[2].inlineData.data = <<q.run, "element", 2>>
    /\ q.parts[3].text.kind = "scene"
    /\ runs[q.run].i = 1

\* a media type that begins with the six characters of "audio/"
AudioType(t) ==
  /\ Len(t) >= 6
  /\ t[1] = "a" /\ t[2] = "u" /\ t[3] = "d" /\ t[4] = "i" /\ t[5] = "o" /\ t[6] = "/"

\* C19: selecting a file whose type is not audio starts nothing: the state
\* is left as it was, so a pipeline in Idle (the state whose view holds the
\* file input) stays in Idle; the validation error is set in that very step,
\* the file selected before (if any) is kept, no run starts and nothing is
\* sent; the selected file is always of an audio type, and so is the payload
\* of every analyzeAudio request.
C19_NonAudioRejected ==
  [][/\ \A files \in FileLists :
          (HandleFileUpload(files) /\ files # <<>> /\ ~AudioType(files[1].type)) =>
             /\ state' = state
             /\ state = IDLE => state' = IDLE
             /\ error' = "Please upload a valid audio file."
             /\ UNCHANGED <<audioFile, audioUrl, storyboard, progress, runs, inflight>>
     /\ audioFile' # Null => AudioType(audioFile'.type)
     /\ \A q \in inflight' : q.api = "analyzeAudio" => AudioType(q.mimeType)
    ]_vars

\* C19 witness: with an audio file selected, another file has been refused
C19_Witness ==
  /\ audioFile # Null
  /\ error = "Please upload a valid audio file."
  /\ state = IDLE
  /\ inflight = {}

\* the generateImage attempts a run may make on Storyboard sb with the default
\* number of retries
AttemptBound(sb) == (Len(ElementSeq(sb)) + Len(SceneSeq(sb))) * (DefaultRetries + 1)

\* C20: when every call of the service is answered or fails (and every timer
\* fires, and reset() is not called during a run), every started run ends
\* with the state Ready or Error; it has then made at most one analyzeAudio
\* call and at most (elements + scenes) * (retries + 1) generateImage
\* attempts, and makes none afterwards; a run stays in a working state for
\* ever only while a call of the service is left unanswered.
C20_RunEnds ==
  /\ [][\A id \in RunIds :
          /\ Called(id)'.analyzeAudio <= 1
          /\ runs'[id].pc \in {"idle", "reading", "unread", "analyzing"}
               => Called(id)'.generateImage = 0
          /\ runs'[id].pc \in {"elements", "scenes"}
               => Called(id)'.generateImage <= AttemptBound(runs'[id].sb)
          /\ (runs[id].pc \in {"elements", "scenes"} /\ runs'[id].pc = "done")
               => Called(id)'.generateImage <= AttemptBound(runs[id].sb)
          /\ runs[id].pc = "done" => (Called(id)' = Called(id) /\ runs'[id] = runs[id])
          /\ runs'[id].pc = "done" => runs'[id].outcome \in {"ready", "error"}
       ]_vars
  /\ \A id \in RunIds :
       Working(runs[id]) ~> (runs[id].pc = "done" /\ state \in {READY, ERROR})
  /\ \A id \in RunIds :
       []<>(~Working(runs[id]) \/ {q \in inflight : q.run = id} # {})

\* the 0-based index of the last scene that has started at time t, 0 when none has
LatestStarted(scenes, t) ==
  LET started == {k \in 1..Len(scenes) : scenes[k].timestamp <= t}
  IN IF started = {} THEN 0
     ELSE (CHOOSE k \in started : \A j \in started : j <= k) - 1

\* C21: a time update at playback time t in Ready leaves currentSceneIndex at
\* the largest index i with scenes[i].timestamp <= t, at 0 when no scene has
\* started; the scenes being ascending, the scenes up to that one have started
\* and the ones after it have not.
C21_LatestScene ==
  [][\A time \in PlaybackTimes :
        OnTimeUpdate(time) =>
          LET scenes == storyboard.scenes
              idx == currentSceneIndex'
          IN /\ state = READY
             /\ idx = LatestStarted(scenes, time)
             /\ Ascending(scenes)
             /\ \A k \in 1..Len(scenes) :
                  /\ (k - 1 <= idx /\ scenes[idx + 1].timestamp <= time)
                       => scenes[k].timestamp <= time
                  /\ k - 1 > idx => scenes[k].timestamp > time
    ]_vars

\* C21 witness: playback has passed the start of the second of two scenes
C21_Witness ==
  /\ state = READY
  /\ Len(SceneSeq(storyboard)) = 2
  /\ storyboard.scenes[1].timestamp = 0
  /\ storyboard.scenes[2].timestamp = 5
  /\ currentSceneIndex = 1

\* C22: whenever the state is Ready, currentSceneIndex is a valid index into
\* the Storyboard's scenes (0 <= currentSceneIndex < number of scenes), so the
\* Ready view's read of scenes[currentSceneIndex].timestamp is defined, for
\* every Storyboard the analysis can return and after any time updates and
\* resets.
C22_IndexValid ==
  state = READY =>
    /\ Has(storyboard, "scenes")
    /\ 0 <= currentSceneIndex
    /\ currentSceneIndex < Len(storyboard.scenes)
    /\ ReadyCaption.ok

\* C23: generateImage returns a value only if one of its attempts received a
\* response with an image payload, and it never fails without having sent at
\* least one request, whatever the retries argument is (0 and negative values
\* included).
C23_AttemptsBeforeFailing ==
  /\ gen.st = "returned" =>
       \E k \in 1..Len(genTrace) : genTrace[k].ok /\ genTrace[k].value = gen.value
  /\ gen.st = "threw" => gen.attempts >= 1 /\ Len(genTrace) >= 1

====
